---- MODULE Spec2Model ----
(***************************************************************************)
(* Model of SCT_DS_1.py: a linear script that loads every CSV entry of a   *)
(* ZIP archive (load_all_csv_from_zip), selects one table, and renders a   *)
(* histogram and/or a frequency bar chart of configured columns.           *)
(*                                                                         *)
(* File names are sequences of tokens ("Metadata", "/", ".csv", ...): the  *)
(* substring, suffix and basename tests of the script are computed on the  *)
(* tokens.  A CSV document is a sequence of lines, a line a sequence of    *)
(* cells; pd.read_csv is modelled by ReadCsv (skiprows, header row, dtype  *)
(* inference per column).                                                  *)
(***************************************************************************)
EXTENDS Integers, Sequences, FiniteSets, TLC

VARIABLES
    archive,          \* z.namelist() with each entry's content
    cfg,              \* the module-level configuration, assigned by lines 55-61
    datasets,         \* the dict returned by load_all_csv_from_zip, in insertion order
    main_data_file,   \* line 38
    df,               \* the selected table (lines 45 / 49)
    pc,               \* position in the script
    error,            \* the uncaught exception that ended the run, or "none"
    out,              \* what was printed, in order
    charts,           \* what was rendered (plt.show), in order
    cutIn,            \* input series of a stand-alone pd.cut evaluation
    cutOut,           \* its result
    catIn,            \* input of a stand-alone visualize_categorical call
    catOut            \* its chart and printed summary

vars == <<archive, cfg, datasets, main_data_file, df, pc, error, out, charts,
          cutIn, cutOut, catIn, catOut>>

(***************************************************************************)
(* Bounds                                                                  *)
(***************************************************************************)
MaxEntries == 2
\* longest series handed to a stand-alone pd.cut evaluation
MaxCutLen == 2
\* stand-alone visualize_categorical calls: distinct values, repeated or
\* missing extra values, and top_n
MaxDistinct == 12
MaxExtra == 2
MaxTopN == 12

(***************************************************************************)
(* Cells and values                                                        *)
(***************************************************************************)
Num(n) == [k |-> "num", n |-> n, s |-> ""]
Str(s) == [k |-> "str", n |-> 0, s |-> s]
NaN == [k |-> "nan", n |-> 0, s |-> ""]

\* Python None for a configured column name, and for main_data_file.
None == "<None>"
NoneName == <<"<None>">>
NoTable == [columns |-> <<>>, rows |-> <<>>, skiprows |-> 0, source |-> NoneName]

\* Truthiness of a str-or-None value (`if continuous_column:`).
Truthy(c) == c # None /\ c # ""
\* Truthiness of main_data_file (`if main_data_file:`).
TruthyName(n) == n # NoneName /\ n # <<>>

Range(s) == {s[i] : i \in 1..Len(s)}

(***************************************************************************)
(* File names                                                              *)
(***************************************************************************)
\* str.lower() on a token; only the extension tokens differ in case.
Lower(t) == CASE t = ".CSV" -> ".csv"
              [] t = "Metadata" -> "metadata"
              [] OTHER -> t

\* file.lower().endswith(".csv")
IsCsvName(file) == Len(file) > 0 /\ Lower(file[Len(file)]) = ".csv"

\* "Metadata" in file
HasMetadata(file) == \E i \in 1..Len(file) : file[i] = "Metadata"

\* os.path.basename(file): what follows the last "/"
Basename(file) ==
    LET slashes == {i \in 1..Len(file) : file[i] = "/"}
        last == IF slashes = {} THEN 0
                ELSE CHOOSE i \in slashes : \A j \in slashes : j <= i
    IN SubSeq(file, last + 1, Len(file))

(***************************************************************************)
(* pd.read_csv                                                             *)
(***************************************************************************)
\* skiprows chosen by the loader for an entry (lines 23-27)
SkipRows(file) == IF HasMetadata(file) THEN 0 ELSE 4

\* pd.read_csv raises EmptyDataError when nothing is left for a header row
ReadCsvRaises(doc, skip) == Len(doc) <= skip

ReadCsv(doc, skip, file) ==
    LET lines == SubSeq(doc, skip + 1, Len(doc))
        header == lines[1]
    IN [columns |-> [i \in 1..Len(header) |-> header[i].s],
        rows |-> SubSeq(lines, 2, Len(lines)),
        skiprows |-> skip,
        source |-> file]

HasColumn(t, c) == \E i \in 1..Len(t.columns) : t.columns[i] = c
ColIndex(t, c) == CHOOSE i \in 1..Len(t.columns) : t.columns[i] = c
\* df[c]
Column(t, c) == [r \in 1..Len(t.rows) |-> t.rows[r][ColIndex(t, c)]]
\* pd.api.types.is_numeric_dtype(series): the inferred dtype is numeric iff
\* no cell is text (an all-missing column is float64)
IsNumericDtype(series) == \A i \in 1..Len(series) : series[i].k # "str"

RECURSIVE DropNa(_)
DropNa(series) ==
    IF series = <<>> THEN <<>>
    ELSE IF Head(series).k = "nan" THEN DropNa(Tail(series))
    ELSE <<Head(series)>> \o DropNa(Tail(series))

(***************************************************************************)
(* load_all_csv_from_zip                                                   *)
(***************************************************************************)
KeyIndex(d, key) ==
    IF \E i \in 1..Len(d) : d[i].key = key
    THEN CHOOSE i \in 1..Len(d) : d[i].key = key
    ELSE 0

\* dataframes[key] = value: replaces in place, or appends a new key
DictSet(d, key, value) ==
    IF KeyIndex(d, key) = 0
    THEN Append(d, [key |-> key, value |-> value])
    ELSE [d EXCEPT ![KeyIndex(d, key)] = [key |-> key, value |-> value]]

\* the loop of lines 18-28 over the first n entries; "raised" once an
\* entry's pd.read_csv raised
RECURSIVE LoadLoop(_, _)
LoadLoop(entries, n) ==
    IF n = 0 THEN [raised |-> FALSE, dataframes |-> <<>>]
    ELSE LET prev == LoadLoop(entries, n - 1)
             e == entries[n]
         IN IF prev.raised \/ ~IsCsvName(e.file) THEN prev
            ELSE IF ReadCsvRaises(e.content, SkipRows(e.file))
            THEN [raised |-> TRUE, dataframes |-> prev.dataframes]
            ELSE [raised |-> FALSE,
                  dataframes |-> DictSet(prev.dataframes, Basename(e.file),
                                   ReadCsv(e.content, SkipRows(e.file), e.file))]

load_all_csv_from_zip(entries) == LoadLoop(entries, Len(entries))

(***************************************************************************)
(* Dataset selection (lines 38-50)                                         *)
(***************************************************************************)
\* the for/break loop of lines 39-42
RECURSIVE FirstNonMetadataMutant(_)
FirstNonMetadataMutant(d) ==
    IF d = <<>> THEN NoneName
    ELSE IF ~HasMetadata(d[Len(d)].key) THEN d[Len(d)].key
    ELSE FirstNonMetadataMutant(SubSeq(d, 1, Len(d) - 1))
RECURSIVE FirstNonMetadata(_)
FirstNonMetadata(d) ==
    IF d = <<>> THEN NoneName
    ELSE IF ~HasMetadata(Head(d).key) THEN Head(d).key
    ELSE FirstNonMetadata(Tail(d))

\* lines 49-50: list(datasets.values())[0] and list(datasets.keys())[0];
\* indexing the empty list raises IndexError
FallbackMutant(d) ==
    IF Len(d) = 0 THEN [raised |-> FALSE, table |-> NoTable, key |-> NoneName]
    ELSE [raised |-> FALSE, table |-> d[1].value, key |-> d[1].key]
Fallback(d) ==
    IF Len(d) = 0 THEN [raised |-> TRUE, table |-> NoTable, key |-> NoneName]
    ELSE [raised |-> FALSE, table |-> d[1].value, key |-> d[1].key]

(***************************************************************************)
(* pd.cut with the script's bins and labels (lines 144-146)                *)
(***************************************************************************)
\* float('inf'): above every value a column can hold
Inf == 2147483647
bins == <<0, 1000000, 5000000, 10000000, 50000000, 100000000, 500000000, Inf>>
labels == <<"< 1M", "1M - 5M", "5M - 10M", "10M - 50M", "50M - 100M",
            "100M - 500M", "> 500M">>

\* bins.searchsorted(x, side="left"): pd.cut's default right=True
SearchSortedLeft(b, x) == Cardinality({i \in 1..Len(b) : b[i] < x})

\* one element of pd.cut(x, bins, labels=labels, include_lowest=True)
CutOne(c) ==
    IF c.k = "nan" THEN NaN
    ELSE LET ids0 == SearchSortedLeft(bins, c.n)
             ids == IF c.n = bins[1] THEN 1 ELSE ids0
         IN IF ids = 0 \/ ids = Len(bins) THEN NaN ELSE Str(labels[ids])

\* pd.cut compares every value with the bin edges: text raises TypeError
PdCutRaises(series) == \E i \in 1..Len(series) : series[i].k = "str"

\* a series: its values and, for a categorical dtype, its categories
ObjectSeries(values) == [values |-> values, categorical |-> FALSE, cats |-> <<>>]
PdCut(series) ==
    [values |-> [i \in 1..Len(series) |-> CutOne(series[i])],
     categorical |-> TRUE,
     cats |-> [i \in 1..Len(labels) |-> Str(labels[i])]]

(***************************************************************************)
(* visualize_continuous (lines 65-89)                                      *)
(***************************************************************************)
RECURSIVE SumOf(_)
SumOf(s) == IF s = <<>> THEN 0 ELSE Head(s).n + SumOf(Tail(s))

\* count / min / max of the cleaned series and the sum its mean divides;
\* median and standard deviation are printed from the same cleaned series
visualize_continuous(series, column_name) ==
    LET series_clean == DropNa(series)
        ns == {series_clean[i].n : i \in 1..Len(series_clean)}
    IN [kind |-> "hist", name |-> column_name, data |-> series_clean,
        bars |-> <<>>, listing |-> <<>>, unique |-> 0, top |-> 0,
        count |-> Len(series_clean),
        sum |-> SumOf(series_clean),
        min |-> IF ns = {} THEN NaN ELSE Num(CHOOSE m \in ns : \A x \in ns : m <= x),
        max |-> IF ns = {} THEN NaN ELSE Num(CHOOSE m \in ns : \A x \in ns : m >= x)]

(***************************************************************************)
(* visualize_categorical (lines 92-119)                                    *)
(***************************************************************************)
Min(a, b) == IF a <= b THEN a ELSE b
Max(a, b) == IF a >= b THEN a ELSE b

\* distinct values in order of first appearance
RECURSIVE Distinct(_)
Distinct(s) ==
    IF s = <<>> THEN <<>>
    ELSE LET d == Distinct(SubSeq(s, 1, Len(s) - 1))
             x == s[Len(s)]
         IN IF x \in Range(d) THEN d ELSE Append(d, x)

Count(s, v) == Cardinality({i \in 1..Len(s) : s[i] = v})

\* stable insertion of one row into rows sorted by non-increasing count
RECURSIVE InsertDesc(_, _)
InsertDesc(sorted, row) ==
    IF sorted = <<>> THEN <<row>>
    ELSE IF Head(sorted).count >= row.count
         THEN <<Head(sorted)>> \o InsertDesc(Tail(sorted), row)
         ELSE <<row>> \o sorted

SortDescMutant(rows) == rows
RECURSIVE SortDesc(_)
SortDesc(rows) ==
    IF rows = <<>> THEN <<>>
    ELSE InsertDesc(SortDesc(SubSeq(rows, 1, Len(rows) - 1)), rows[Len(rows)])

\* Series.value_counts(): one row per observed value (per category, observed
\* or not, for a categorical dtype), sorted by descending count
value_counts(series_clean, categorical, cats) ==
    LET index == IF categorical THEN cats ELSE Distinct(series_clean)
    IN SortDesc([i \in 1..Len(index) |->
                   [value |-> index[i], count |-> Count(series_clean, index[i])]])

\* Series.head(n): the first n rows; all but the last -n for a negative n
HeadN(s, n) ==
    IF n >= 0 THEN SubSeq(s, 1, Min(n, Len(s)))
    ELSE SubSeq(s, 1, Max(Len(s) + n, 0))

\* the cap of the printed listing (lines 117-118)
PrintCap == 10

\* enumerate(counts.head(10).items(), 1)
Listing(counts) ==
    LET shown == HeadN(counts, PrintCap)
    IN [i \in 1..Len(shown) |->
          [idx |-> i, value |-> shown[i].value, count |-> shown[i].count]]

visualize_categorical(series, column_name, top_n) ==
    LET series_clean == DropNa(series.values)
        counts == HeadN(value_counts(series_clean, series.categorical, series.cats), top_n)
    IN [kind |-> "bar", name |-> column_name, data |-> series_clean,
        bars |-> counts,
        listing |-> Listing(counts),
        unique |-> Cardinality(Range(series_clean)),
        count |-> Len(series_clean),
        top |-> Min(PrintCap, Len(counts)),
        sum |-> 0, min |-> NaN, max |-> NaN]

(***************************************************************************)
(* The script's visualization blocks (lines 122-164)                       *)
(***************************************************************************)
\* a printed line: the block of the script that printed it, its text, the name in it
Msg(b, m, a) == [block |-> b, msg |-> m, arg |-> a]

\* line 147
BinnedName(c) == <<c, " (Population Size Categories)">>

\* line 137: the binning block is entered
BinningEnteredMutant(c, t) ==
    c.CREATE_CATEGORICAL_FROM_CONTINUOUS
    /\ HasColumn(t, c.CONTINUOUS_COLUMN_FOR_BINNING)
    /\ (Truthy(c.continuous_column) => HasColumn(t, c.continuous_column))
BinningEntered(c, t) ==
    c.CREATE_CATEGORICAL_FROM_CONTINUOUS
    /\ HasColumn(t, c.CONTINUOUS_COLUMN_FOR_BINNING)

\* line 142: the column is binned
BinningAccepted(c, t) ==
    c.CONTINUOUS_COLUMN_FOR_BINNING = "2020"
    \/ IsNumericDtype(Column(t, c.CONTINUOUS_COLUMN_FOR_BINNING))

\* line 157: the plain categorical block is entered
PlainCategoricalEnteredMutant(c, t) == Truthy(c.categorical_column)
PlainCategoricalEntered(c, t) ==
    ~BinningEntered(c, t) /\ Truthy(c.categorical_column)

\* top_n of the two call sites (line 152; the default of line 92)
TopNBinning == 10
TopNDefault == 30

(***************************************************************************)
(* Inputs                                                                  *)
(***************************************************************************)
FileNames ==
    { <<"API_POP", ".csv">>,
      <<"Metadata", "_Country", ".csv">>,
      <<"data", "/", "API_POP", ".csv">>,
      <<"Metadata", "/", "API_POP", ".csv">>,
      <<"API_GDP", ".CSV">>,
      <<"readme", ".txt">> }

Preamble ==
    << <<Str("Data Source"), Str("World Development Indicators")>>,
       <<Str("Last Updated Date"), Str("2024-06-28")>>,
       <<Str("Indicator"), Str("SP.POP.TOTL")>>,
       <<Str("Unit"), Str("persons")>> >>

\* an indicator file: 4 boilerplate rows, the header, the data
DataDoc ==
    Preamble \o
    << <<Str("Country Name"), Str("2020")>>,
       <<Str("A"), Num(1000000)>>,
       <<Str("B"), Num(6000000)>>,
       <<Str("A"), NaN>> >>

\* the same family with a textual "2020" column
TextDoc ==
    Preamble \o
    << <<Str("Country Name"), Str("2020")>>,
       <<Str("A"), Str("..")>>,
       <<Str("B"), NaN>> >>

\* a metadata file: header first, no boilerplate
MetaDoc ==
    << <<Str("Country Code"), Str("Region")>>,
       <<Str("AAA"), Str("East")>>,
       <<Str("BBB"), Str("West")>> >>

Docs == {DataDoc, TextDoc, MetaDoc}

Entries == [file : FileNames, content : Docs]

\* archives of at most MaxEntries entries with distinct names
Archives ==
    UNION { {a \in [1..n -> Entries] :
               \A i, j \in 1..n : i # j => a[i].file # a[j].file}
            : n \in 0..MaxEntries }

ContinuousChoices == {None, "2020", "Country Name", "Elevation"}
CategoricalChoices == {None, "Country Name", "Elevation"}
BinningChoices == {"2020", "Country Name", "Elevation"}

Configs ==
    [categorical_column : CategoricalChoices,
     continuous_column : ContinuousChoices,
     CREATE_CATEGORICAL_FROM_CONTINUOUS : BOOLEAN,
     CONTINUOUS_COLUMN_FOR_BINNING : BinningChoices]

(***************************************************************************)
(* The run of the script                                                   *)
(***************************************************************************)
Idle == cutIn = <<>> /\ cutOut = <<>> /\ catIn = <<>> /\ catOut = <<>>

\* the configuration before lines 55-61 have run
NoConfig ==
    [categorical_column |-> None, continuous_column |-> None,
     CREATE_CATEGORICAL_FROM_CONTINUOUS |-> FALSE,
     CONTINUOUS_COLUMN_FOR_BINNING |-> None]

Init ==
    /\ archive \in Archives
    /\ cfg = NoConfig
    /\ datasets = <<>>
    /\ main_data_file = NoneName
    /\ df = NoTable
    /\ pc = "load"
    /\ error = "none"
    /\ out = <<>>
    /\ charts = <<>>
    /\ Idle

\* line 34
Load ==
    /\ pc = "load"
    /\ LET r == load_all_csv_from_zip(archive)
       IN IF r.raised
          THEN /\ pc' = "failed"
               /\ error' = "EmptyDataError"
               /\ datasets' = datasets
          ELSE /\ pc' = "select"
               /\ error' = error
               /\ datasets' = r.dataframes
    /\ UNCHANGED <<archive, cfg, main_data_file, df, out, charts,
                   cutIn, cutOut, catIn, catOut>>

\* lines 38-50
Select ==
    /\ pc = "select"
    /\ main_data_file' = FirstNonMetadata(datasets)
    /\ IF TruthyName(main_data_file')
       THEN /\ df' = datasets[KeyIndex(datasets, main_data_file')].value
            /\ out' = Append(out, Msg("select", "Using dataset", main_data_file'))
            /\ pc' = "config"
            /\ error' = error
       ELSE LET first == Fallback(datasets)
            IN IF first.raised
               THEN /\ pc' = "failed"
                    /\ error' = "IndexError"
                    /\ UNCHANGED <<df, out>>
               ELSE /\ df' = first.table
                    /\ out' = Append(out, Msg("select", "Using first dataset", first.key))
                    /\ pc' = "config"
                    /\ error' = error
    /\ UNCHANGED <<archive, cfg, datasets, charts, cutIn, cutOut, catIn, catOut>>

\* lines 55-61: the configuration of this run
Configure ==
    /\ pc = "config"
    /\ cfg' \in Configs
    /\ pc' = "continuous"
    /\ UNCHANGED <<archive, datasets, main_data_file, df, error, out, charts,
                   cutIn, cutOut, catIn, catOut>>

\* lines 123-133
ContinuousBlock ==
    /\ pc = "continuous"
    /\ pc' = "categorical"
    /\ LET c == cfg.continuous_column
       IN IF ~Truthy(c) THEN UNCHANGED <<out, charts>>
          ELSE IF ~HasColumn(df, c)
          THEN /\ out' = Append(out, Msg("continuous", "Warning: column not found", c))
               /\ charts' = charts
          ELSE IF IsNumericDtype(Column(df, c))
          THEN /\ out' = Append(out, Msg("continuous", "Visualizing CONTINUOUS variable", c))
               /\ charts' = Append(charts, visualize_continuous(Column(df, c), <<c>>))
          ELSE /\ out' = Append(out, Msg("continuous", "Warning: not a numeric column", c))
               /\ charts' = charts
    /\ UNCHANGED <<archive, cfg, datasets, main_data_file, df, error,
                   cutIn, cutOut, catIn, catOut>>

\* lines 137-154: what the binning block prints and renders, or that it raised
BinningBlock(c, t) ==
    LET b == c.CONTINUOUS_COLUMN_FOR_BINNING
        Nothing == [raised |-> FALSE, out |-> <<>>, charts |-> <<>>]
    IN IF ~BinningEntered(c, t) THEN Nothing
       ELSE LET continuous_data == DropNa(Column(t, b))
            IN IF ~BinningAccepted(c, t)
               THEN [Nothing EXCEPT !.out =
                       <<Msg("binning", "Cannot create categories from non-numeric column", b)>>]
               ELSE IF PdCutRaises(continuous_data)
               THEN [Nothing EXCEPT !.raised = TRUE]
               ELSE [raised |-> FALSE,
                     out |-> <<Msg("binning", "Visualizing CATEGORICAL variable", b)>>,
                     charts |-> <<visualize_categorical(PdCut(continuous_data),
                                                        BinnedName(b), TopNBinning)>>]

\* lines 157-164: what the plain categorical block prints and renders
PlainCategoricalBlock(c, t) ==
    LET col == c.categorical_column
    IN IF ~PlainCategoricalEntered(c, t) THEN [out |-> <<>>, charts |-> <<>>]
       ELSE IF ~HasColumn(t, col)
       THEN [out |-> <<Msg("categorical", "Warning: column not found", col)>>,
             charts |-> <<>>]
       ELSE [out |-> <<Msg("categorical", "Visualizing CATEGORICAL variable", col)>>,
             charts |-> <<visualize_categorical(ObjectSeries(Column(t, col)),
                                                <<col>>, TopNDefault)>>]

\* lines 137-164
CategoricalBlock ==
    /\ pc = "categorical"
    /\ LET binning == BinningBlock(cfg, df)
           plain == PlainCategoricalBlock(cfg, df)
       IN IF binning.raised
          THEN /\ pc' = "failed"
               /\ error' = "TypeError"
               /\ UNCHANGED <<out, charts>>
          ELSE /\ pc' = "done"
               /\ error' = error
               /\ out' = out \o binning.out \o plain.out
               /\ charts' = charts \o binning.charts \o plain.charts
    /\ UNCHANGED <<archive, cfg, datasets, main_data_file, df,
                   cutIn, cutOut, catIn, catOut>>

Next == Load \/ Select \/ Configure \/ ContinuousBlock \/ CategoricalBlock

Spec == Init /\ [][Next]_vars

(***************************************************************************)
(* pd.cut on its own (lines 139-146), over series of boundary values       *)
(***************************************************************************)
NotRunning ==
    /\ archive = <<>>
    /\ cfg = NoConfig
    /\ datasets = <<>>
    /\ main_data_file = NoneName
    /\ df = NoTable
    /\ error = "none"
    /\ out = <<>>
    /\ charts = <<>>

CutValues ==
    {Num(n) : n \in {-1, 0, 1, 999999, 1000000, 1000001, 5000000, 9999999,
                     10000000, 50000000, 100000000, 499999999, 500000000,
                     500000001, 1400000000}}
    \cup {NaN, Str("..")}

InitCut ==
    /\ NotRunning
    /\ pc = "cut"
    /\ cutIn \in UNION {[1..n -> CutValues] : n \in 0..MaxCutLen}
    /\ cutOut = <<>>
    /\ catIn = <<>>
    /\ catOut = <<>>

\* lines 139 and 146
Cut ==
    /\ pc = "cut"
    /\ LET continuous_data == DropNa(cutIn)
       IN IF PdCutRaises(continuous_data)
          THEN /\ pc' = "failed"
               /\ error' = "TypeError"
               /\ cutOut' = cutOut
          ELSE /\ pc' = "cut_done"
               /\ error' = error
               /\ cutOut' = PdCut(continuous_data).values
    /\ UNCHANGED <<archive, cfg, datasets, main_data_file, df, out, charts,
                   cutIn, catIn, catOut>>

NextCut == Cut

SpecCut == InitCut /\ [][NextCut]_vars

(***************************************************************************)
(* visualize_categorical on its own                                        *)
(***************************************************************************)
Base(k) == [i \in 1..k |-> Num(i)]
ExtraValues == {NaN, Num(1), Num(2), Num(MaxDistinct)}
Extras == UNION {[1..n -> ExtraValues] : n \in 0..MaxExtra}

\* astype("category"): a value outside the categories becomes missing
AsCategorical(values, cats) ==
    [values |-> [i \in 1..Len(values) |->
                   IF values[i] \in Range(cats) THEN values[i] ELSE NaN],
     categorical |-> TRUE,
     cats |-> cats]

CatSeries ==
    UNION { { ObjectSeries(Base(k) \o e),
              ObjectSeries(e \o Base(k)),
              AsCategorical(e, Base(k)) } : k \in 0..MaxDistinct, e \in Extras }

InitCat ==
    /\ NotRunning
    /\ pc = "visualize"
    /\ cutIn = <<>>
    /\ cutOut = <<>>
    /\ catIn \in [series : CatSeries, top_n : 0..MaxTopN]
    /\ catOut = <<>>

\* lines 92-119
VisualizeCategorical ==
    /\ pc = "visualize"
    /\ pc' = "visualized"
    /\ catOut' = visualize_categorical(catIn.series, <<"column">>, catIn.top_n)
    /\ UNCHANGED <<archive, cfg, datasets, main_data_file, df, error, out, charts,
                   cutIn, cutOut, catIn>>

NextCat == VisualizeCategorical

SpecCat == InitCat /\ [][NextCat]_vars

(***************************************************************************)
(* Properties                                                              *)
(***************************************************************************)
Printed(block, m) == \E i \in 1..Len(out) : out[i].block = block /\ out[i].msg = m
Bars == {i \in 1..Len(charts) : charts[i].kind = "bar"}
Hists == {i \in 1..Len(charts) : charts[i].kind = "hist"}
\* load_all_csv_from_zip has returned
Loaded == pc # "load" /\ error # "EmptyDataError"
\* lines 55-61 have run
Configured == pc \in {"continuous", "categorical", "done"} \/ error = "TypeError"
CsvEntries == {i \in 1..Len(archive) : IsCsvName(archive[i].file)}

\* C1: once the selection has run on a non-empty mapping, the selected
\* dataset is the first entry (in insertion order) whose name does not
\* contain "Metadata"; if there is none it is the first entry of the mapping,
\* and the selection raises no error.
C1_SelectsFirstNonMetadata ==
    (Loaded /\ pc # "select" /\ datasets # <<>>) =>
        LET plain == {i \in 1..Len(datasets) : ~HasMetadata(datasets[i].key)}
        IN /\ error # "IndexError"
           /\ Len(out) >= 1
           /\ IF plain # {}
              THEN \E f \in plain :
                     /\ \A i \in plain : f <= i
                     /\ main_data_file = datasets[f].key
                     /\ df = datasets[f].value
                     /\ out[1].msg = "Using dataset"
                     /\ out[1].arg = datasets[f].key
              ELSE /\ main_data_file = NoneName
                   /\ df = datasets[1].value
                   /\ out[1].msg = "Using first dataset"
                   /\ out[1].arg = datasets[1].key

C1_Witness ==
    /\ pc = "done"
    /\ Len(datasets) = 2
    /\ HasMetadata(datasets[1].key)
    /\ ~HasMetadata(datasets[2].key)
    /\ main_data_file = datasets[2].key
    /\ df = datasets[2].value

\* C2: every non-negative value of the binned column gets the label of the
\* right-open range [lower, upper) that contains it; 0 maps to "< 1M" and
\* 1,000,000 maps to "1M - 5M".
RightOpenLabel(v) ==
    labels[CHOOSE i \in 1..Len(labels) : bins[i] <= v /\ v < bins[i + 1]]

C2_RightOpenBuckets ==
    pc = "cut_done" =>
        LET continuous_data == DropNa(cutIn)
        IN \A i \in 1..Len(continuous_data) :
             continuous_data[i].n >= 0 =>
                cutOut[i] = Str(RightOpenLabel(continuous_data[i].n))

\* C3: when the loaded mapping is empty (the archive has no CSV entry), the
\* run ends at the selection in a fatal error; no dataset is selected and no
\* visualization stage is reached.
C3_EmptyArchiveIsFatal ==
    (Loaded /\ pc # "select" /\ (CsvEntries = {} \/ datasets = <<>>)) =>
        /\ pc = "failed"
        /\ error = "IndexError"
        /\ df = NoTable
        /\ main_data_file = NoneName
        /\ cfg = NoConfig
        /\ out = <<>>
        /\ charts = <<>>

C3_Witness ==
    /\ pc = "failed"
    /\ error = "IndexError"
    /\ Len(archive) = 1
    /\ CsvEntries = {}

\* C4: for each visualization path whose configured column is not a column
\* of the selected dataset, a diagnostic of that path is printed, the path
\* renders no chart, and the run does not end in an error.
C4_AbsentColumnDiagnosed ==
    (Configured /\ pc \in {"done", "failed"}) =>
        LET b == cfg.CONTINUOUS_COLUMN_FOR_BINNING
            c == cfg.continuous_column
            g == cfg.categorical_column
        IN /\ (Truthy(c) /\ ~HasColumn(df, c)) =>
                /\ Printed("continuous", "Warning: column not found")
                /\ Hists = {}
           /\ (cfg.CREATE_CATEGORICAL_FROM_CONTINUOUS /\ ~HasColumn(df, b)) =>
                /\ \E i \in 1..Len(out) : out[i].block = "binning"
                /\ \A i \in Bars : charts[i].name # BinnedName(b)
                /\ pc = "done"
           /\ (/\ ~(cfg.CREATE_CATEGORICAL_FROM_CONTINUOUS /\ HasColumn(df, b))
               /\ Truthy(g)
               /\ ~HasColumn(df, g)) =>
                /\ Printed("categorical", "Warning: column not found")
                /\ Bars = {}
                /\ pc = "done"

\* C5: when the column configured for the continuous path or for binning
\* exists but is not numeric, the run does not abort: that visualization is
\* skipped with a printed warning and the blocks that follow still run.
C5_NonNumericIsNotFatal ==
    (Configured /\ pc \in {"done", "failed"}) =>
        LET b == cfg.CONTINUOUS_COLUMN_FOR_BINNING
            c == cfg.continuous_column
        IN /\ (Truthy(c) /\ HasColumn(df, c) /\ ~IsNumericDtype(Column(df, c))) =>
                /\ Printed("continuous", "Warning: not a numeric column")
                /\ Hists = {}
           /\ (/\ cfg.CREATE_CATEGORICAL_FROM_CONTINUOUS
               /\ HasColumn(df, b)
               /\ ~IsNumericDtype(Column(df, b))) =>
                /\ pc = "done"
                /\ error = "none"
                /\ Printed("binning", "Cannot create categories from non-numeric column")
                /\ Bars = {}

\* C6 as stated: in a completed run where continuous_column is configured
\* but absent, a warning is printed, no histogram is rendered, and if the
\* binning flag is set and the binning column exists the binning bar chart
\* is rendered.
C6_Original ==
    (/\ pc = "done"
     /\ Truthy(cfg.continuous_column)
     /\ ~HasColumn(df, cfg.continuous_column)) =>
        /\ Printed("continuous", "Warning: column not found")
        /\ Hists = {}
        /\ (/\ cfg.CREATE_CATEGORICAL_FROM_CONTINUOUS
            /\ HasColumn(df, cfg.CONTINUOUS_COLUMN_FOR_BINNING)) =>
               \E i \in Bars :
                  charts[i].name = BinnedName(cfg.CONTINUOUS_COLUMN_FOR_BINNING)

\* C6 as amended: when continuous_column is configured but absent, a warning
\* is printed and no histogram is rendered, and if the binning flag is set
\* and the binning column exists and is numeric, the run completes and the
\* binning block runs afterwards and renders its bar chart.
C6_BinningIndependentOfContinuous ==
    (/\ Configured
     /\ pc \in {"done", "failed"}
     /\ Truthy(cfg.continuous_column)
     /\ ~HasColumn(df, cfg.continuous_column)) =>
        /\ Printed("continuous", "Warning: column not found")
        /\ Hists = {}
        /\ (/\ cfg.CREATE_CATEGORICAL_FROM_CONTINUOUS
            /\ HasColumn(df, cfg.CONTINUOUS_COLUMN_FOR_BINNING)
            /\ IsNumericDtype(Column(df, cfg.CONTINUOUS_COLUMN_FOR_BINNING))) =>
               /\ pc = "done"
               /\ \E i \in Bars :
                    /\ charts[i].name = BinnedName(cfg.CONTINUOUS_COLUMN_FOR_BINNING)
                    /\ Len(charts[i].bars) = Len(labels)
               /\ \E i, j \in 1..Len(out) :
                    /\ i < j
                    /\ out[i].block = "continuous"
                    /\ out[j].block = "binning"
                    /\ out[j].msg = "Visualizing CATEGORICAL variable"

C6_Witness ==
    /\ pc = "done"
    /\ cfg.continuous_column = "Elevation"
    /\ ~HasColumn(df, "Elevation")
    /\ cfg.CREATE_CATEGORICAL_FROM_CONTINUOUS
    /\ cfg.CONTINUOUS_COLUMN_FOR_BINNING = "2020"
    /\ HasColumn(df, "2020")
    /\ IsNumericDtype(Column(df, "2020"))
    /\ Hists = {}
    /\ Bars # {}

C9_LoaderComplete ==
    (Loaded /\ pc # "failed") =>
        /\ \A i \in CsvEntries :
             \E j \in 1..Len(datasets) :
                /\ datasets[j].key = Basename(archive[i].file)
                /\ datasets[j].value.source = archive[i].file
                /\ datasets[j].value =
                     ReadCsv(archive[i].content, datasets[j].value.skiprows,
                             archive[i].file)
        /\ \A j \in 1..Len(datasets) :
             \E i \in CsvEntries : datasets[j].value.source = archive[i].file
        /\ Len(datasets) = Cardinality(CsvEntries)

\* C10: the loader parses an entry without the 4-row skip exactly when the
\* selection treats the entry's mapping name as containing "Metadata"; so a
\* table selected as the non-metadata main dataset was parsed with the 4
\* leading rows skipped.
C10_LoaderAndSelectorAgree ==
    Loaded =>
        /\ \A j \in 1..Len(datasets) :
             (datasets[j].value.skiprows = 0) <=> HasMetadata(datasets[j].key)
        /\ TruthyName(main_data_file) => df.skiprows = 4

====
